---------------------------- MODULE Spec2Model ----------------------------
(***************************************************************************)
(* A model of patchwatcher/alarm.c: the wrapper that runs one Wine         *)
(* conformance test under a timeout, serialises tests that are not on the  *)
(* whitelist, buffers the test's output in parallel runs and checks the    *)
(* video mode afterwards.                                                  *)
(*                                                                         *)
(* C strings are sequences of byte values (ASCII codes), so that strcmp,   *)
(* strstr and strrchr are computed on bytes as the C library computes      *)
(* them.  A quoted comment after a literal gives the string it encodes.    *)
(***************************************************************************)
EXTENDS Integers, Sequences, FiniteSets, TLC

(***************************************************************************)
(* Bounds of the model.                                                    *)
(***************************************************************************)
NumProcs == 2   \* supervisors started by one parallel make in one directory
MaxOut == 2     \* bytes a child writes at most
MaxArgs == 4     \* tokens of an invocation in the identity-extraction check
MaxFaults == 1   \* calls (open, fork, execvp, popen, system) the kernel fails

(***************************************************************************)
(* Program constants.                                                      *)
(***************************************************************************)
MAXARGS == 1000
MYBUFLEN == 128000
CH_UNDERSCORE == 95
CH_DOT == 46
CH_COLON == 58
CH_MINUS == 45
CH_ZERO == 48
CH_NINE == 57
SIGKILL == 9
SIGSEGV == 11
EXIT_TIMEOUT == 1
EXIT_ABNORMAL == 99
EXIT_MODE_CHANGED == 1
EXIT_USAGE == 1
EXIT_EXEC_FAILED == 1

STR_wine == <<119,105,110,101>> \* "wine"
STR_jobserver == <<106,111,98,115,101,114,118,101,114>> \* "jobserver"

(***************************************************************************)
(* C library functions on byte strings.                                    *)
(***************************************************************************)
MinOf(S) == CHOOSE x \in S : \A y \in S : x <= y
MaxOf(S) == CHOOSE x \in S : \A y \in S : x >= y
Sign(n) == IF n < 0 THEN -1 ELSE IF n > 0 THEN 1 ELSE 0

\* strcmp(a, b): the sign of the difference of the first differing bytes; the
\* terminating NUL (0) of the shorter string is below every other byte.
strcmp(a, b) ==
  LET n == IF Len(a) < Len(b) THEN Len(a) ELSE Len(b)
      diff == {k \in 1..n : a[k] # b[k]}
  IN  IF diff = {} THEN Sign(Len(a) - Len(b))
      ELSE Sign(a[MinOf(diff)] - b[MinOf(diff)])

\* strstr(hay, needle) != NULL
strstr(hay, needle) ==
  \E k \in 0..(Len(hay) - Len(needle)) :
     \A j \in 1..Len(needle) : hay[k + j] = needle[j]

\* strrchr(s, c): the index of the last c in s, 0 for NULL.
strrchr(s, c) ==
  LET at == {k \in 1..Len(s) : s[k] = c}
  IN  IF at = {} THEN 0 ELSE MaxOf(at)

\* atoi(s): optional sign, then the leading decimal digits.
RECURSIVE Digits(_, _, _)
Digits(s, k, acc) ==
  IF k > Len(s) \/ s[k] < CH_ZERO \/ s[k] > CH_NINE THEN acc
  ELSE Digits(s, k + 1, acc * 10 + (s[k] - CH_ZERO))

atoi(s) ==
  IF Len(s) > 0 /\ s[1] = CH_MINUS THEN 0 - Digits(s, 2, 0)
  ELSE Digits(s, 1, 0)

(***************************************************************************)
(* getTestID: the test id "module:file" of a command line.  argv is the    *)
(* C array argv[0..argc-1], held here as the sequence argv[1..argc].       *)
(* buf is written only when every check has passed.                        *)
(***************************************************************************)
FirstArgi == 1

getTestID(argc, argv) ==
  LET hits == {a \in FirstArgi..(argc - 1) : strstr(argv[a + 1], STR_wine)}
      argi == IF hits = {} THEN MaxOf({argc, FirstArgi}) ELSE MinOf(hits)
  IN  IF argi + 2 >= argc THEN [ok |-> FALSE, buf |-> <<>>]
      ELSE
        LET module == argv[argi + 2]
            file == argv[argi + 3]
            module_end == strrchr(module, CH_UNDERSCORE)
            file_end == strrchr(file, CH_DOT)
        IN  IF module_end = 0 THEN [ok |-> FALSE, buf |-> <<>>]
            ELSE IF file_end = 0 THEN [ok |-> FALSE, buf |-> <<>>]
            ELSE [ok |-> TRUE,
                  buf |-> SubSeq(module, 1, module_end - 1) \o <<CH_COLON>>
                          \o SubSeq(file, 1, file_end - 1)]

(***************************************************************************)
(* The whitelist, in the order of the source array.                        *)
(***************************************************************************)
whitelist ==
  <<
    <<97,100,118,97,112,105,51,50,58,99,114,101,100>>, \* "advapi32:cred" (line 112)
    <<97,100,118,97,112,105,51,50,58,99,114,121,112,116>>, \* "advapi32:crypt" (line 113)
    <<97,100,118,97,112,105,51,50,58,99,114,121,112,116,95,108,109,104,97,115,104>>, \* "advapi32:crypt_lmhash" (line 114)
    <<97,100,118,97,112,105,51,50,58,99,114,121,112,116,95,109,100,52>>, \* "advapi32:crypt_md4" (line 115)
    <<97,100,118,97,112,105,51,50,58,99,114,121,112,116,95,109,100,53>>, \* "advapi32:crypt_md5" (line 116)
    <<97,100,118,97,112,105,51,50,58,99,114,121,112,116,95,115,104,97>>, \* "advapi32:crypt_sha" (line 117)
    <<97,100,118,97,112,105,51,50,58,108,115,97>>, \* "advapi32:lsa" (line 118)
    <<97,100,118,97,112,105,51,50,58,114,101,103,105,115,116,114,121>>, \* "advapi32:registry" (line 119)
    <<97,100,118,97,112,105,51,50,58,115,101,99,117,114,105,116,121>>, \* "advapi32:security" (line 120)
    <<97,100,118,97,112,105,51,50,58,115,101,114,118,105,99,101>>, \* "advapi32:service" (line 121)
    <<97,100,118,112,97,99,107,58,97,100,118,112,97,99,107>>, \* "advpack:advpack" (line 122)
    <<97,100,118,112,97,99,107,58,102,105,108,101,115>>, \* "advpack:files" (line 123)
    <<99,111,109,99,116,108,51,50,58,109,105,115,99>>, \* "comctl32:misc" (line 124)
    <<99,111,109,99,116,108,51,50,58,109,114,117>>, \* "comctl32:mru" (line 125)
    <<99,111,109,100,108,103,51,50,58,112,114,105,110,116,100,108,103>>, \* "comdlg32:printdlg" (line 126)
    <<99,114,101,100,117,105,58,99,114,101,100,117,105>>, \* "credui:credui" (line 127)
    <<99,114,121,112,116,51,50,58,98,97,115,101,54,52>>, \* "crypt32:base64" (line 128)
    <<99,114,121,112,116,51,50,58,99,101,114,116>>, \* "crypt32:cert" (line 129)
    <<99,114,121,112,116,51,50,58,99,104,97,105,110>>, \* "crypt32:chain" (line 130)
    <<99,114,121,112,116,51,50,58,99,114,108>>, \* "crypt32:crl" (line 131)
    <<99,114,121,112,116,51,50,58,99,116,108>>, \* "crypt32:ctl" (line 132)
    <<99,114,121,112,116,51,50,58,101,110,99,111,100,101>>, \* "crypt32:encode" (line 133)
    <<99,114,121,112,116,51,50,58,109,97,105,110>>, \* "crypt32:main" (line 134)
    <<99,114,121,112,116,51,50,58,109,101,115,115,97,103,101>>, \* "crypt32:message" (line 135)
    <<99,114,121,112,116,51,50,58,111,105,100>>, \* "crypt32:oid" (line 136)
    <<99,114,121,112,116,51,50,58,112,114,111,116,101,99,116,100,97,116,97>>, \* "crypt32:protectdata" (line 137)
    <<99,114,121,112,116,51,50,58,115,105,112>>, \* "crypt32:sip" (line 138)
    <<99,114,121,112,116,51,50,58,115,116,111,114,101>>, \* "crypt32:store" (line 139)
    <<99,114,121,112,116,51,50,58,115,116,114>>, \* "crypt32:str" (line 140)
    <<99,114,121,112,116,110,101,116,58,99,114,121,112,116,110,101,116>>, \* "cryptnet:cryptnet" (line 141)
    <<99,114,121,112,116,117,105,58,99,114,121,112,116,117,105>>, \* "cryptui:cryptui" (line 142)
    <<100,51,100,114,109,58,118,101,99,116,111,114>>, \* "d3drm:vector" (line 143)
    <<100,51,100,120,56,58,109,97,116,104>>, \* "d3dx8:math" (line 144)
    <<100,51,100,120,57,95,51,54,58,109,97,116,104>>, \* "d3dx9_36:math" (line 145)
    <<100,51,100,120,111,102,58,100,51,100,120,111,102>>, \* "d3dxof:d3dxof" (line 146)
    <<100,110,115,97,112,105,58,110,97,109,101>>, \* "dnsapi:name" (line 147)
    <<100,110,115,97,112,105,58,114,101,99,111,114,100>>, \* "dnsapi:record" (line 148)
    <<100,112,108,97,121,120,58,100,112,108,97,121,120>>, \* "dplayx:dplayx" (line 149)
    <<102,117,115,105,111,110,58,97,115,109,99,97,99,104,101>>, \* "fusion:asmcache" (line 150)
    <<102,117,115,105,111,110,58,97,115,109,110,97,109,101>>, \* "fusion:asmname" (line 151)
    <<102,117,115,105,111,110,58,102,117,115,105,111,110>>, \* "fusion:fusion" (line 152)
    <<103,100,105,51,50,58,98,105,116,109,97,112>>, \* "gdi32:bitmap" (line 153)
    <<103,100,105,51,50,58,98,114,117,115,104>>, \* "gdi32:brush" (line 154)
    <<103,100,105,51,50,58,103,100,105,111,98,106>>, \* "gdi32:gdiobj" (line 155)
    <<103,100,105,51,50,58,103,101,110,101,114,97,116,101,100>>, \* "gdi32:generated" (line 156)
    <<103,100,105,51,50,58,105,99,109>>, \* "gdi32:icm" (line 157)
    <<103,100,105,51,50,58,109,97,112,112,105,110,103>>, \* "gdi32:mapping" (line 158)
    <<103,100,105,51,50,58,112,97,108,101,116,116,101>>, \* "gdi32:palette" (line 159)
    <<103,100,105,51,50,58,112,97,116,104>>, \* "gdi32:path" (line 160)
    <<103,100,105,51,50,58,112,101,110>>, \* "gdi32:pen" (line 161)
    <<103,100,105,112,108,117,115,58,98,114,117,115,104>>, \* "gdiplus:brush" (line 162)
    <<103,100,105,112,108,117,115,58,99,117,115,116,111,109,108,105,110,101,99,97,112>>, \* "gdiplus:customlinecap" (line 163)
    <<103,100,105,112,108,117,115,58,103,114,97,112,104,105,99,115>>, \* "gdiplus:graphics" (line 164)
    <<103,100,105,112,108,117,115,58,103,114,97,112,104,105,99,115,112,97,116,104>>, \* "gdiplus:graphicspath" (line 165)
    <<103,100,105,112,108,117,115,58,109,97,116,114,105,120>>, \* "gdiplus:matrix" (line 166)
    <<103,100,105,112,108,117,115,58,112,97,116,104,105,116,101,114,97,116,111,114>>, \* "gdiplus:pathiterator" (line 167)
    <<103,100,105,112,108,117,115,58,112,101,110>>, \* "gdiplus:pen" (line 168)
    <<103,100,105,112,108,117,115,58,114,101,103,105,111,110>>, \* "gdiplus:region" (line 169)
    <<103,100,105,112,108,117,115,58,115,116,114,105,110,103,102,111,114,109,97,116>>, \* "gdiplus:stringformat" (line 170)
    <<105,110,101,116,109,105,98,49,58,109,97,105,110>>, \* "inetmib1:main" (line 171)
    <<105,112,104,108,112,97,112,105,58,105,112,104,108,112,97,112,105>>, \* "iphlpapi:iphlpapi" (line 172)
    <<107,101,114,110,101,108,51,50,58,97,99,116,99,116,120>>, \* "kernel32:actctx" (line 173)
    <<107,101,114,110,101,108,51,50,58,97,108,108,111,99>>, \* "kernel32:alloc" (line 174)
    <<107,101,114,110,101,108,51,50,58,97,116,111,109>>, \* "kernel32:atom" (line 175)
    <<107,101,114,110,101,108,51,50,58,99,104,97,110,103,101>>, \* "kernel32:change" (line 176)
    <<107,101,114,110,101,108,51,50,58,99,111,100,101,112,97,103,101>>, \* "kernel32:codepage" (line 177)
    <<107,101,114,110,101,108,51,50,58,99,111,109,109>>, \* "kernel32:comm" (line 178)
    <<107,101,114,110,101,108,51,50,58,100,101,98,117,103,103,101,114>>, \* "kernel32:debugger" (line 179)
    <<107,101,114,110,101,108,51,50,58,100,105,114,101,99,116,111,114,121>>, \* "kernel32:directory" (line 180)
    <<107,101,114,110,101,108,51,50,58,100,114,105,118,101>>, \* "kernel32:drive" (line 181)
    <<107,101,114,110,101,108,51,50,58,101,110,118,105,114,111,110>>, \* "kernel32:environ" (line 182)
    <<107,101,114,110,101,108,51,50,58,102,105,108,101>>, \* "kernel32:file" (line 183)
    <<107,101,114,110,101,108,51,50,58,102,111,114,109,97,116,95,109,115,103>>, \* "kernel32:format_msg" (line 184)
    <<107,101,114,110,101,108,51,50,58,103,101,110,101,114,97,116,101,100>>, \* "kernel32:generated" (line 185)
    <<107,101,114,110,101,108,51,50,58,104,101,97,112>>, \* "kernel32:heap" (line 186)
    <<107,101,114,110,101,108,51,50,58,108,111,97,100,101,114>>, \* "kernel32:loader" (line 187)
    <<107,101,114,110,101,108,51,50,58,108,111,99,97,108,101>>, \* "kernel32:locale" (line 188)
    <<107,101,114,110,101,108,51,50,58,109,97,105,108,115,108,111,116>>, \* "kernel32:mailslot" (line 189)
    <<107,101,114,110,101,108,51,50,58,109,111,100,117,108,101>>, \* "kernel32:module" (line 190)
    <<107,101,114,110,101,108,51,50,58,112,97,116,104>>, \* "kernel32:path" (line 191)
    <<107,101,114,110,101,108,51,50,58,112,105,112,101>>, \* "kernel32:pipe" (line 192)
    <<107,101,114,110,101,108,51,50,58,112,114,111,102,105,108,101>>, \* "kernel32:profile" (line 193)
    <<107,101,114,110,101,108,51,50,58,114,101,115,111,117,114,99,101>>, \* "kernel32:resource" (line 194)
    <<107,101,114,110,101,108,51,50,58,115,121,110,99>>, \* "kernel32:sync" (line 195)
    <<107,101,114,110,101,108,51,50,58,116,105,109,101>>, \* "kernel32:time" (line 196)
    <<107,101,114,110,101,108,51,50,58,116,105,109,101,114>>, \* "kernel32:timer" (line 197)
    <<107,101,114,110,101,108,51,50,58,116,111,111,108,104,101,108,112>>, \* "kernel32:toolhelp" (line 198)
    <<107,101,114,110,101,108,51,50,58,118,101,114,115,105,111,110>>, \* "kernel32:version" (line 199)
    <<107,101,114,110,101,108,51,50,58,118,105,114,116,117,97,108>>, \* "kernel32:virtual" (line 200)
    <<107,101,114,110,101,108,51,50,58,118,111,108,117,109,101>>, \* "kernel32:volume" (line 201)
    <<108,111,99,97,108,115,112,108,58,108,111,99,97,108,109,111,110>>, \* "localspl:localmon" (line 202)
    <<108,111,99,97,108,117,105,58,108,111,99,97,108,117,105>>, \* "localui:localui" (line 203)
    <<108,122,51,50,58,108,122,101,120,112,97,110,100,95,109,97,105,110>>, \* "lz32:lzexpand_main" (line 204)
    <<109,97,112,105,51,50,58,105,109,97,108,108,111,99>>, \* "mapi32:imalloc" (line 205)
    <<109,97,112,105,51,50,58,112,114,111,112>>, \* "mapi32:prop" (line 206)
    <<109,97,112,105,51,50,58,117,116,105,108>>, \* "mapi32:util" (line 207)
    <<109,115,97,99,109,51,50,58,109,115,97,99,109>>, \* "msacm32:msacm" (line 208)
    <<109,115,99,109,115,58,112,114,111,102,105,108,101>>, \* "mscms:profile" (line 209)
    <<109,115,118,99,114,116,58,99,112,112>>, \* "msvcrt:cpp" (line 210)
    <<109,115,118,99,114,116,58,100,97,116,97>>, \* "msvcrt:data" (line 211)
    <<109,115,118,99,114,116,100,58,100,101,98,117,103>>, \* "msvcrtd:debug" (line 212)
    <<109,115,118,99,114,116,58,100,105,114>>, \* "msvcrt:dir" (line 213)
    <<109,115,118,99,114,116,58,101,110,118,105,114,111,110>>, \* "msvcrt:environ" (line 214)
    <<109,115,118,99,114,116,58,102,105,108,101>>, \* "msvcrt:file" (line 215)
    <<109,115,118,99,114,116,58,104,101,97,100,101,114,115>>, \* "msvcrt:headers" (line 216)
    <<109,115,118,99,114,116,58,104,101,97,112>>, \* "msvcrt:heap" (line 217)
    <<109,115,118,99,114,116,58,112,114,105,110,116,102>>, \* "msvcrt:printf" (line 218)
    <<109,115,118,99,114,116,58,115,99,97,110,102>>, \* "msvcrt:scanf" (line 219)
    <<109,115,118,99,114,116,58,115,116,114,105,110,103>>, \* "msvcrt:string" (line 220)
    <<109,115,118,99,114,116,58,116,105,109,101>>, \* "msvcrt:time" (line 221)
    <<110,101,116,97,112,105,51,50,58,97,99,99,101,115,115>>, \* "netapi32:access" (line 222)
    <<110,101,116,97,112,105,51,50,58,97,112,105,98,117,102>>, \* "netapi32:apibuf" (line 223)
    <<110,101,116,97,112,105,51,50,58,100,115>>, \* "netapi32:ds" (line 224)
    <<110,101,116,97,112,105,51,50,58,119,107,115,116,97>>, \* "netapi32:wksta" (line 225)
    <<110,116,100,108,108,58,97,116,111,109>>, \* "ntdll:atom" (line 226)
    <<110,116,100,108,108,58,99,104,97,110,103,101>>, \* "ntdll:change" (line 227)
    <<110,116,100,108,108,58,101,110,118>>, \* "ntdll:env" (line 228)
    <<110,116,100,108,108,58,101,114,114,111,114>>, \* "ntdll:error" (line 229)
    <<110,116,100,108,108,58,101,120,99,101,112,116,105,111,110>>, \* "ntdll:exception" (line 230)
    <<110,116,100,108,108,58,102,105,108,101>>, \* "ntdll:file" (line 231)
    <<110,116,100,108,108,58,103,101,110,101,114,97,116,101,100>>, \* "ntdll:generated" (line 232)
    <<110,116,100,108,108,58,105,110,102,111>>, \* "ntdll:info" (line 233)
    <<110,116,100,108,108,58,108,97,114,103,101,95,105,110,116>>, \* "ntdll:large_int" (line 234)
    <<110,116,100,108,108,58,111,109>>, \* "ntdll:om" (line 235)
    <<110,116,100,108,108,58,112,97,116,104>>, \* "ntdll:path" (line 236)
    <<110,116,100,108,108,58,112,111,114,116>>, \* "ntdll:port" (line 237)
    <<110,116,100,108,108,58,114,101,103>>, \* "ntdll:reg" (line 238)
    <<110,116,100,108,108,58,114,116,108>>, \* "ntdll:rtl" (line 239)
    <<110,116,100,108,108,58,114,116,108,98,105,116,109,97,112>>, \* "ntdll:rtlbitmap" (line 240)
    <<110,116,100,108,108,58,114,116,108,115,116,114>>, \* "ntdll:rtlstr" (line 241)
    <<110,116,100,108,108,58,115,116,114,105,110,103>>, \* "ntdll:string" (line 242)
    <<110,116,100,108,108,58,116,105,109,101>>, \* "ntdll:time" (line 243)
    <<110,116,100,115,97,112,105,58,110,116,100,115,97,112,105>>, \* "ntdsapi:ntdsapi" (line 244)
    <<110,116,112,114,105,110,116,58,110,116,112,114,105,110,116>>, \* "ntprint:ntprint" (line 245)
    <<111,100,98,99,99,112,51,50,58,109,105,115,99>>, \* "odbccp32:misc" (line 246)
    <<111,108,101,51,50,58,101,114,114,111,114,105,110,102,111>>, \* "ole32:errorinfo" (line 247)
    <<111,108,101,51,50,58,104,103,108,111,98,97,108,115,116,114,101,97,109>>, \* "ole32:hglobalstream" (line 248)
    <<111,108,101,51,50,58,112,114,111,112,118,97,114,105,97,110,116>>, \* "ole32:propvariant" (line 249)
    <<111,108,101,51,50,58,115,116,103,95,112,114,111,112>>, \* "ole32:stg_prop" (line 250)
    <<111,108,101,51,50,58,115,116,111,114,97,103,101,51,50>>, \* "ole32:storage32" (line 251)
    <<111,108,101,97,99,99,58,109,97,105,110>>, \* "oleacc:main" (line 252)
    <<111,108,101,97,117,116,51,50,58,111,108,101,102,111,110,116>>, \* "oleaut32:olefont" (line 253)
    <<111,108,101,97,117,116,51,50,58,111,108,101,112,105,99,116,117,114,101>>, \* "oleaut32:olepicture" (line 254)
    <<111,108,101,97,117,116,51,50,58,115,97,102,101,97,114,114,97,121>>, \* "oleaut32:safearray" (line 255)
    <<111,108,101,97,117,116,51,50,58,116,121,112,101,108,105,98>>, \* "oleaut32:typelib" (line 256)
    <<111,108,101,97,117,116,51,50,58,118,97,114,102,111,114,109,97,116>>, \* "oleaut32:varformat" (line 257)
    <<111,108,101,97,117,116,51,50,58,118,97,114,116,101,115,116>>, \* "oleaut32:vartest" (line 258)
    <<111,108,101,97,117,116,51,50,58,118,97,114,116,121,112,101>>, \* "oleaut32:vartype" (line 259)
    <<112,100,104,58,112,100,104>>, \* "pdh:pdh" (line 260)
    <<112,115,97,112,105,58,112,115,97,112,105,95,109,97,105,110>>, \* "psapi:psapi_main" (line 261)
    <<114,97,115,97,112,105,51,50,58,114,97,115,97,112,105>>, \* "rasapi32:rasapi" (line 262)
    <<114,112,99,114,116,52,58,103,101,110,101,114,97,116,101,100>>, \* "rpcrt4:generated" (line 263)
    <<114,112,99,114,116,52,58,110,100,114,95,109,97,114,115,104,97,108,108>>, \* "rpcrt4:ndr_marshall" (line 264)
    <<114,112,99,114,116,52,58,114,112,99,95,97,115,121,110,99>>, \* "rpcrt4:rpc_async" (line 265)
    <<114,112,99,114,116,52,58,115,101,114,118,101,114>>, \* "rpcrt4:server" (line 266)
    <<114,115,97,101,110,104,58,114,115,97,101,110,104>>, \* "rsaenh:rsaenh" (line 267)
    <<115,99,104,97,110,110,101,108,58,109,97,105,110>>, \* "schannel:main" (line 268)
    <<115,101,99,117,114,51,50,58,109,97,105,110>>, \* "secur32:main" (line 269)
    <<115,101,99,117,114,51,50,58,110,116,108,109>>, \* "secur32:ntlm" (line 270)
    <<115,101,99,117,114,51,50,58,115,99,104,97,110,110,101,108>>, \* "secur32:schannel" (line 271)
    <<115,101,99,117,114,51,50,58,115,101,99,117,114,51,50>>, \* "secur32:secur32" (line 272)
    <<115,101,114,105,97,108,117,105,58,99,111,110,102,100,108,103>>, \* "serialui:confdlg" (line 273)
    <<115,101,116,117,112,97,112,105,58,100,101,118,105,110,115,116>>, \* "setupapi:devinst" (line 274)
    <<115,101,116,117,112,97,112,105,58,112,97,114,115,101,114>>, \* "setupapi:parser" (line 275)
    <<115,101,116,117,112,97,112,105,58,113,117,101,114,121>>, \* "setupapi:query" (line 276)
    <<115,101,116,117,112,97,112,105,58,115,116,114,105,110,103,116,97,98,108,101>>, \* "setupapi:stringtable" (line 277)
    <<115,104,100,111,99,118,119,58,115,104,100,111,99,118,119>>, \* "shdocvw:shdocvw" (line 278)
    <<115,104,101,108,108,51,50,58,103,101,110,101,114,97,116,101,100>>, \* "shell32:generated" (line 279)
    <<115,104,101,108,108,51,50,58,115,104,102,108,100,114,95,115,112,101,99,105,97,108>>, \* "shell32:shfldr_special" (line 280)
    <<115,104,101,108,108,51,50,58,115,104,108,102,105,108,101,111,112>>, \* "shell32:shlfileop" (line 281)
    <<115,104,108,119,97,112,105,58,97,115,115,111,99>>, \* "shlwapi:assoc" (line 282)
    <<115,104,108,119,97,112,105,58,99,108,105,115,116>>, \* "shlwapi:clist" (line 283)
    <<115,104,108,119,97,112,105,58,99,108,115,105,100>>, \* "shlwapi:clsid" (line 284)
    <<115,104,108,119,97,112,105,58,103,101,110,101,114,97,116,101,100>>, \* "shlwapi:generated" (line 285)
    <<115,104,108,119,97,112,105,58,105,115,116,114,101,97,109>>, \* "shlwapi:istream" (line 286)
    <<115,104,108,119,97,112,105,58,111,114,100,105,110,97,108>>, \* "shlwapi:ordinal" (line 287)
    <<115,104,108,119,97,112,105,58,112,97,116,104>>, \* "shlwapi:path" (line 288)
    <<115,104,108,119,97,112,105,58,117,114,108>>, \* "shlwapi:url" (line 289)
    <<115,110,109,112,97,112,105,58,117,116,105,108>>, \* "snmpapi:util" (line 290)
    <<115,112,111,111,108,115,115,58,115,112,111,111,108,115,115>>, \* "spoolss:spoolss" (line 291)
    <<117,114,108,109,111,110,58,103,101,110,101,114,97,116,101,100>>, \* "urlmon:generated" (line 292)
    <<117,115,101,114,51,50,58,103,101,110,101,114,97,116,101,100>>, \* "user32:generated" (line 293)
    <<117,115,101,114,51,50,58,114,101,115,111,117,114,99,101>>, \* "user32:resource" (line 294)
    <<117,115,101,114,51,50,58,119,115,112,114,105,110,116,102>>, \* "user32:wsprintf" (line 295)
    <<117,115,101,114,101,110,118,58,117,115,101,114,101,110,118>>, \* "userenv:userenv" (line 296)
    <<118,101,114,115,105,111,110,58,105,110,102,111>>, \* "version:info" (line 297)
    <<118,101,114,115,105,111,110,58,105,110,115,116,97,108,108>>, \* "version:install" (line 298)
    <<119,105,110,104,116,116,112,58,110,111,116,105,102,105,99,97,116,105,111,110>>, \* "winhttp:notification" (line 299)
    <<119,105,110,104,116,116,112,58,117,114,108>>, \* "winhttp:url" (line 300)
    <<119,105,110,104,116,116,112,58,119,105,110,104,116,116,112>>, \* "winhttp:winhttp" (line 301)
    <<119,105,110,105,110,101,116,58,103,101,110,101,114,97,116,101,100>>, \* "wininet:generated" (line 302)
    <<119,105,110,105,110,101,116,58,104,116,116,112>>, \* "wininet:http" (line 303)
    <<119,105,110,105,110,101,116,58,105,110,116,101,114,110,101,116>>, \* "wininet:internet" (line 304)
    <<119,105,110,105,110,101,116,58,117,114,108>>, \* "wininet:url" (line 305)
    <<119,105,110,105,110,101,116,58,117,114,108,99,97,99,104,101>>, \* "wininet:urlcache" (line 306)
    <<119,105,110,109,109,58,99,97,112,116,117,114,101>>, \* "winmm:capture" (line 307)
    <<119,105,110,109,109,58,109,105,120,101,114>>, \* "winmm:mixer" (line 308)
    <<119,105,110,109,109,58,109,109,105,111>>, \* "winmm:mmio" (line 309)
    <<119,105,110,109,109,58,116,105,109,101,114>>, \* "winmm:timer" (line 310)
    <<119,105,110,109,109,58,119,97,118,101>>, \* "winmm:wave" (line 311)
    <<119,105,110,115,112,111,111,108,46,100,114,118,58,105,110,102,111>>, \* "winspool.drv:info" (line 312)
    <<119,105,110,116,114,117,115,116,58,97,115,110>>, \* "wintrust:asn" (line 313)
    <<119,105,110,116,114,117,115,116,58,99,114,121,112,116>>, \* "wintrust:crypt" (line 314)
    <<119,105,110,116,114,117,115,116,58,114,101,103,105,115,116,101,114>>, \* "wintrust:register" (line 315)
    <<119,105,110,116,114,117,115,116,58,115,111,102,116,112,117,98>>, \* "wintrust:softpub" (line 316)
    <<119,108,100,97,112,51,50,58,112,97,114,115,101>>, \* "wldap32:parse" (line 317)
    <<119,115,50,95,51,50,58,112,114,111,116,111,99,111,108>>, \* "ws2_32:protocol" (line 318)
    <<119,115,50,95,51,50,58,115,111,99,107>> \* "ws2_32:sock" (line 319)
  >>

whitelist_len == Len(whitelist)

mystrcmp(a, b) == strcmp(a, b)

\* bsearch(key, base, nmemb, ...): the C library's binary search over
\* base[0..nmemb-1]; the index (from 1) of the element found, 0 for NULL.
RECURSIVE bsearch(_, _, _, _)
bsearch(key, base, l, u) ==
  IF l >= u THEN 0
  ELSE LET idx == (l + u) \div 2
           c == mystrcmp(key, base[idx + 1])
       IN  IF c < 0 THEN bsearch(key, base, l, idx)
           ELSE IF c > 0 THEN bsearch(key, base, idx + 1, u)
           ELSE idx + 1

inWhitelist(testid) == bsearch(testid, whitelist, 0, whitelist_len) # 0

\* isParallelRun: MAKEFLAGS is set and contains "jobserver".
\* isParallelRun without the search for "jobserver".
MakeflagsSet(mf) == ~mf.null

isParallelRun(mf) ==
  (~mf.null) /\ strstr(mf.str, STR_jobserver)

(***************************************************************************)
(* The wait status of a child, as wait() stores it.                        *)
(***************************************************************************)
StatusExited(code) == code * 256
StatusSignaled(sig) == sig
WIFEXITED(status) == (status % 128) = 0
\* The low seven bits of a wait status: the signal that ended the child.
StatusLow(status) == status % 128

WEXITSTATUS(status) == (status \div 256) % 256

(***************************************************************************)
(* The runs the model starts.  Each supervisor gets one command line; all  *)
(* of them are started by the same make, so they share MAKEFLAGS, the      *)
(* working directory, the standard output and the display.                 *)
(***************************************************************************)
Procs == 1..NumProcs

TOK_alarm == <<97,108,97,114,109>> \* "alarm"
TOK_5 == <<53>> \* "5"
TOK_0 == <<48>> \* "0"
TOK_runtest == <<114,117,110,116,101,115,116>> \* "runtest"
TOK_ntdll_test == <<110,116,100,108,108,95,116,101,115,116,46,101,120,101>> \* "ntdll_test.exe"
TOK_generated_c == <<103,101,110,101,114,97,116,101,100,46,99>> \* "generated.c"
TOK_user32_test == <<117,115,101,114,51,50,95,116,101,115,116,46,101,120,101>> \* "user32_test.exe"
TOK_msg_c == <<109,115,103,46,99>> \* "msg.c"
TOK_msvcrtd_test == <<109,115,118,99,114,116,100,95,116,101,115,116,46,101,120,101>> \* "msvcrtd_test.exe"
TOK_debug_c == <<100,101,98,117,103,46,99>> \* "debug.c"

\* alarm 5 runtest wine ntdll_test.exe generated.c   (ntdll:generated is listed)
CL_listed == <<TOK_alarm, TOK_5, TOK_runtest, STR_wine, TOK_ntdll_test, TOK_generated_c>>
\* alarm 5 runtest wine user32_test.exe msg.c        (user32:msg is not listed)
CL_unlisted == <<TOK_alarm, TOK_5, TOK_runtest, STR_wine, TOK_user32_test, TOK_msg_c>>
\* alarm 5 runtest wine msvcrtd_test.exe debug.c     (msvcrtd:debug is listed)
CL_listedLate == <<TOK_alarm, TOK_5, TOK_runtest, STR_wine, TOK_msvcrtd_test, TOK_debug_c>>
\* alarm 5 runtest user32_test.exe msg.c             (no token holds "wine")
CL_noMarker == <<TOK_alarm, TOK_5, TOK_runtest, TOK_user32_test, TOK_msg_c>>
\* alarm 0 runtest                                   (a timeout that is not positive)
CL_badTimeout == <<TOK_alarm, TOK_0, TOK_runtest>>

CommandLines == <<CL_listed, CL_unlisted, CL_noMarker, CL_badTimeout>>

\* The command lines of all the runs the model looks at.
KnownCommandLines == Append(CommandLines, CL_listedLate)

\* The supervisors run the same program: an assignment of command lines is
\* taken once, in the order of the list, and not once per renaming.
Assignments ==
  {f \in [Procs -> 1..Len(CommandLines)] :
     \A i \in Procs, j \in Procs : i <= j => f[i] <= f[j]}

\* MAKEFLAGS: unset, set by a serial make, set by a make -jN.
MF_unset == [null |-> TRUE, str |-> <<>>]
MF_serial == [null |-> FALSE, str |-> <<45,107>>] \* "-k"
MF_jobserver ==
  [null |-> FALSE,
   str |-> <<45,45,106,111,98,115,101,114,118,101,114,45,102,100,115,61,51,44,52,32,45,106>>] \* "--jobserver-fds=3,4 -j"
MakeflagsValues == {MF_unset, MF_serial, MF_jobserver}

\* What char testid[64] may hold when getTestID has not written it.
STR_garbage == <<103,97,114,98,97,103,101>> \* "garbage"
UninitTestIds == {<<>>, STR_garbage}

\* The names "<testid>.tmplog" the runs can use, named by their testid.
LogNames ==
  UninitTestIds \cup
  {getTestID(Len(KnownCommandLines[k]) - 2,
             SubSeq(KnownCommandLines[k], 3, Len(KnownCommandLines[k]))).buf :
     k \in 1..Len(KnownCommandLines)}

ExitCodes == {7}        \* the exit code of a test program that ends on its own
MaxMode == 2
Modes == 1..MaxMode     \* what the probe reports for the display's modes
ResetMode == 1          \* the mode "xrandr -s 0" selects

VARIABLES
  makeflags,  \* the environment variable MAKEFLAGS
  sup,        \* sup[i]: the variables of main() in supervisor i, and where it is
  child,      \* child[i]: the process forked by supervisor i
  ofd,        \* ofd[i]: the open file description behind logfd (inode, offset)
  tmpfile,    \* tmpfile[n]: the inode that "<n>.tmplog" names, 0 when absent
  inode,      \* inode[k]: the bytes of the temporary file created by supervisor k
  lockFiles,  \* which of "alarm.lock" and "log.lock" exist
  execLock,   \* the holder of the flock on alarm.lock, 0 when free
  logLock,    \* the holder of the flock on log.lock, 0 when free
  stdout,     \* stdout[i]: what supervisor i and its child wrote to the shared
              \* standard output, in order
  torn,       \* torn[i]: another process wrote to the standard output while
              \* supervisor i was between its log header and its log footer
  stderr,     \* stderr[i]: what supervisor i and its child wrote to standard error
  faults,     \* how many calls the kernel has failed so far
  display,    \* the current video mode
  idArgv, idRes,   \* getTestID applied to one invocation
  wlKey, wlRes     \* inWhitelist applied to one key

procVars == <<makeflags, sup, child, ofd, tmpfile, inode, lockFiles, execLock,
              logLock, stdout, torn, stderr, display, faults>>
fnVars == <<idArgv, idRes, wlKey, wlRes>>
vars == <<procVars, fnVars>>

Line(i, kind, bytes) == [p |-> i, k |-> kind, b |-> bytes]

InitSup(cl) ==
  [pc |-> "start", argv |-> cl, testid |-> <<>>, idOk |-> FALSE,
   notWhitelisted |-> FALSE, origVideoMode |-> 0, videoMode |-> 0,
   lockfd |-> -1, logfd |-> -1, loglockfd |-> -1, child_pid |-> 0,
   waitresult |-> 0, ret |-> 0, armed |-> FALSE, exitCode |-> -1]

InitChild == [st |-> "none", status |-> 0, out |-> 0, redirected |-> FALSE]

ProcIdle ==
  /\ makeflags = MF_unset
  /\ sup = [i \in Procs |-> InitSup(CL_badTimeout)]
  /\ child = [i \in Procs |-> InitChild]
  /\ ofd = [i \in Procs |-> [ino |-> 0, off |-> 0]]
  /\ tmpfile = [n \in LogNames |-> 0]
  /\ inode = [k \in Procs |-> <<>>]
  /\ lockFiles = {}
  /\ execLock = 0
  /\ logLock = 0
  /\ stdout = [i \in Procs |-> <<>>]
  /\ torn = [i \in Procs |-> FALSE]
  /\ faults = 0
  /\ stderr = [i \in Procs |-> <<>>]
  /\ display = ResetMode

FnIdle ==
  /\ idArgv = <<>>
  /\ idRes = [ok |-> FALSE, buf |-> <<>>, done |-> FALSE]
  /\ wlKey = <<>>
  /\ wlRes = [found |-> FALSE, done |-> FALSE]

Init ==
  /\ makeflags \in MakeflagsValues
  /\ sup \in {[i \in Procs |-> InitSup(CommandLines[f[i]])] : f \in Assignments}
  /\ child = [i \in Procs |-> InitChild]
  /\ ofd = [i \in Procs |-> [ino |-> 0, off |-> 0]]
  /\ tmpfile = [n \in LogNames |-> 0]
  /\ inode = [k \in Procs |-> <<>>]
  /\ lockFiles = {}
  /\ execLock = 0
  /\ logLock = 0
  /\ stdout = [i \in Procs |-> <<>>]
  /\ torn = [i \in Procs |-> FALSE]
  /\ faults = 0
  /\ stderr = [i \in Procs |-> <<>>]
  /\ display = ResetMode
  /\ FnIdle

(***************************************************************************)
(* exit(): the process ends with the code, stdio flushes what printf has   *)
(* buffered, and the kernel closes its descriptors, which drops the flocks *)
(* it still holds.                                                         *)
(***************************************************************************)
Exited(s, code) == [InitSup(s.argv) EXCEPT !.pc = "done", !.exitCode = code]

\* close(): the bytes of a file that has no name and no open descriptor are gone.
Collected(files, names, descs) ==
  [k \in Procs |->
     IF (\E n \in LogNames : names[n] = k) \/ (\E j \in Procs : descs[j].ino = k)
     THEN files[k] ELSE <<>>]

Closed(descs, i) == [descs EXCEPT ![i] = [ino |-> 0, off |-> 0]]

Unlocked(holder, i) == IF holder = i THEN 0 ELSE holder

\* Supervisor i has written its log header and not yet its log footer.
BlockOpen(i) == sup[i].pc \in {"copy", "footer"}

\* Process i, or its child, writes lines to the shared standard output.
Emit(i, lines) ==
  /\ stdout' = [stdout EXCEPT ![i] = @ \o lines]
  /\ torn' = [j \in Procs |-> torn[j] \/ (lines # <<>> /\ j # i /\ BlockOpen(j))]

\* printf output that is still in the stdio buffer of supervisor i.
Buffered(i) ==
  IF sup[i].pc = "reset" THEN <<Line(i, "modechanged", <<>>)>> ELSE <<>>

(***************************************************************************)
(* getVideoMode: the line number xrandr reports for the current mode, or 0 *)
(* when popen or fgets fail (ok is FALSE).                                 *)
(***************************************************************************)
getVideoMode(ok) == IF ok THEN display ELSE 0

\* The outcomes of a call that can fail: TRUE for success.  The kernel fails
\* at most MaxFaults calls in a run of the system.
Outcomes == IF faults < MaxFaults THEN BOOLEAN ELSE {TRUE}

Cost(failed) == IF failed THEN 1 ELSE 0

(***************************************************************************)
(* main, lines 379-405: the arguments, the test id, the whitelist, the     *)
(* video mode before the run and, in a parallel run of a test that is not  *)
(* whitelisted, the open of alarm.lock.  open may fail; the run then goes  *)
(* on without the lock.                                                    *)
(***************************************************************************)
NotWhitelisted(idOk, testid) == idOk /\ ~inWhitelist(testid)

NeedsExecLock(nw) == isParallelRun(makeflags) /\ nw

Start(i) ==
  /\ sup[i].pc = "start"
  /\ LET argv == sup[i].argv
         argc == Len(argv)
     IN
     IF argc < 3 \/ atoi(argv[2]) < 1
     THEN /\ sup' = [sup EXCEPT ![i] = Exited(@, EXIT_USAGE)]
          /\ stderr' = [stderr EXCEPT ![i] = Append(@, "usage")]
          /\ UNCHANGED <<lockFiles, faults>>
     ELSE
       LET newargc == IF argc - 2 < MAXARGS - 1 THEN argc - 2 ELSE MAXARGS - 1
           newargv == SubSeq(argv, 3, 2 + newargc)
           id == getTestID(newargc, newargv)
       IN  \E buf \in (IF id.ok THEN {id.buf} ELSE UninitTestIds) :
           \E probed \in (IF NotWhitelisted(id.ok, buf) THEN Outcomes ELSE {TRUE}) :
           \E opened \in (IF NeedsExecLock(NotWhitelisted(id.ok, buf))
                          THEN Outcomes ELSE {FALSE}) :
             LET nw == NotWhitelisted(id.ok, buf)
                 cost == Cost(~probed) + Cost(NeedsExecLock(nw) /\ ~opened)
             IN
             /\ faults + cost <= MaxFaults
             /\ faults' = faults + cost
             /\ sup' = [sup EXCEPT ![i] =
                          [@ EXCEPT !.pc = IF opened THEN "flock" ELSE "launch",
                                    !.testid = buf, !.idOk = id.ok,
                                    !.notWhitelisted = nw,
                                    !.origVideoMode =
                                       IF nw THEN getVideoMode(probed) ELSE 0,
                                    !.lockfd = IF opened THEN 3 ELSE -1]]
             /\ lockFiles' = IF opened THEN lockFiles \cup {"alarm.lock"}
                             ELSE lockFiles
             /\ UNCHANGED stderr
  /\ UNCHANGED <<makeflags, child, ofd, tmpfile, inode, execLock,
                 logLock, stdout, torn, display, fnVars>>

\* flock(fd, LOCK_EX) returns once no other open file description holds the lock.
FlockGranted(holder) == holder = 0

\* line 406: flock(lockfd, LOCK_EX)
FlockExec(i) ==
  /\ sup[i].pc = "flock"
  /\ FlockGranted(execLock)
  /\ execLock' = i
  /\ sup' = [sup EXCEPT ![i] = [@ EXCEPT !.pc = "launch"]]
  /\ UNCHANGED <<makeflags, child, ofd, tmpfile, inode, lockFiles, logLock,
                 stdout, torn, stderr, display, faults, fnVars>>

(***************************************************************************)
(* main, lines 409-432: in a parallel run open "<testid>.tmplog" (created  *)
(* when absent, not truncated when present), fork, and arm the alarm.      *)
(* open and fork may fail; neither result is checked beyond logfd.  The    *)
(* child redirects its output when logfd is open and calls execvp: the     *)
(* test program then runs, or hangs for good, or execvp fails.             *)
(***************************************************************************)
Launch(i) ==
  /\ sup[i].pc = "launch"
  /\ \E opened \in (IF isParallelRun(makeflags) THEN Outcomes ELSE {FALSE}) :
     \E st \in {"none", "running", "hung", "noexec"} :
       LET name == sup[i].testid
           ino == IF tmpfile[name] = 0 THEN i ELSE tmpfile[name]
           cost == Cost(isParallelRun(makeflags) /\ ~opened)
                   + Cost(st \in {"none", "noexec"})
       IN
       /\ faults + cost <= MaxFaults
       /\ faults' = faults + cost
       /\ IF opened
          THEN /\ tmpfile' = [tmpfile EXCEPT ![name] = ino]
               /\ inode' = IF tmpfile[name] = 0 THEN [inode EXCEPT ![i] = <<>>]
                           ELSE inode
               /\ ofd' = [ofd EXCEPT ![i] = [ino |-> ino, off |-> 0]]
          ELSE UNCHANGED <<tmpfile, inode, ofd>>
       /\ sup' = [sup EXCEPT ![i] =
                    [@ EXCEPT !.pc = "wait", !.armed = TRUE,
                              !.logfd = IF opened THEN 4 ELSE -1,
                              !.child_pid = IF st = "none" THEN -1 ELSE i]]
       /\ child' = [child EXCEPT ![i] =
                      [@ EXCEPT !.st = st,
                                !.redirected = (st # "none") /\ opened]]
  /\ UNCHANGED <<makeflags, lockFiles, execLock, logLock, stdout, torn, stderr,
                 display, fnVars>>

(***************************************************************************)
(* The child, lines 416-428, and the test program it becomes.  Its         *)
(* descriptors 1 and 2 are logfd when that is open, and the supervisor's   *)
(* standard output and error otherwise.                                    *)
(***************************************************************************)
\* A child that is gone: how it went and its wait status are kept.
Gone(how, status) == [InitChild EXCEPT !.st = how, !.status = status]

WriteAt(content, off, byte) ==
  IF off < Len(content) THEN [content EXCEPT ![off + 1] = byte]
  ELSE Append(content, byte)

\* The child writes one byte to its descriptor fd (1 or 2).
ChildPut(i, fd) ==
  IF child[i].redirected
  THEN /\ inode' = [inode EXCEPT ![ofd[i].ino] = WriteAt(@, ofd[i].off, i)]
       /\ ofd' = [ofd EXCEPT ![i].off = @ + 1]
       /\ UNCHANGED <<stdout, torn, stderr>>
  ELSE /\ IF fd = 1
          THEN /\ Emit(i, <<Line(i, "child", <<i>>)>>)
               /\ UNCHANGED stderr
          ELSE /\ stderr' = [stderr EXCEPT ![i] = Append(@, "child")]
               /\ UNCHANGED <<stdout, torn>>
       /\ UNCHANGED <<inode, ofd>>

\* lines 424-427: execvp fails, perror writes to descriptor 2, exit(1).
ChildExecFails(i) ==
  /\ child[i].st = "noexec"
  /\ ChildPut(i, 2)
  /\ child' = [child EXCEPT ![i] =
                 Gone("zombie", StatusExited(EXIT_EXEC_FAILED))]
  /\ UNCHANGED <<makeflags, sup, tmpfile, lockFiles, execLock, logLock,
                 display, faults, fnVars>>

ChildWrite(i) ==
  /\ child[i].st = "running"
  /\ child[i].out < MaxOut
  /\ ChildPut(i, 1)
  /\ child' = [child EXCEPT ![i].out = @ + 1]
  /\ UNCHANGED <<makeflags, sup, tmpfile, lockFiles, execLock, logLock,
                 display, faults, fnVars>>

\* The test program changes the video mode.
ChildSetMode(i) ==
  /\ child[i].st = "running"
  /\ display' \in Modes \ {display}
  /\ UNCHANGED <<makeflags, sup, child, ofd, tmpfile, inode, lockFiles, execLock,
                 logLock, stdout, torn, stderr, faults, fnVars>>

ChildExits(i) ==
  /\ child[i].st = "running"
  /\ \E code \in ExitCodes :
       child' = [child EXCEPT ![i] = Gone("zombie", StatusExited(code))]
  /\ UNCHANGED <<makeflags, sup, ofd, tmpfile, inode, lockFiles, execLock,
                 logLock, stdout, torn, stderr, display, faults, fnVars>>

\* The test program is killed by a signal of its own making.
ChildCrashes(i) ==
  /\ child[i].st = "running"
  /\ child' = [child EXCEPT ![i] = Gone("zombie", StatusSignaled(SIGSEGV))]
  /\ UNCHANGED <<makeflags, sup, ofd, tmpfile, inode, lockFiles, execLock,
                 logLock, stdout, torn, stderr, display, faults, fnVars>>

(***************************************************************************)
(* handler, lines 61-67: SIGALRM arrives.  The alarm armed at line 432 is  *)
(* never cancelled, so it can arrive wherever main is from then on.        *)
(* kill(child_pid, SIGKILL) ends a child that is still running.  What     *)
(* kill(-1, SIGKILL) does to unrelated processes is outside the model.     *)
(* The signal reaches the child alone (line 64): the processes the test    *)
(* program has started live on, and they hold the descriptors they have    *)
(* inherited through fork, lockfd among them.  The flock on alarm.lock     *)
(* belongs to the open file description, so it stays until the last of     *)
(* them has closed it.                                                     *)
(***************************************************************************)
HandlerExitCode == EXIT_TIMEOUT

Alive(c) == c.st \in {"running", "hung", "noexec"}

\* What child_pid names when the handler sends the signal.
KillTarget(i) ==
  IF sup[i].child_pid = -1 THEN "every process"
  ELSE IF Alive(child[i]) THEN "live child"
  ELSE IF child[i].st = "zombie" THEN "zombie child"
  ELSE "reaped pid"

\* kill() that does not reach the child.
Spared(c) == c

Killed(c) == IF Alive(c) THEN Gone("killed", StatusSignaled(SIGKILL)) ELSE c

\* The holder of a flock that only processes started by a test program keep.
Descendants == NumProcs + 1

\* Whether the test program leaves processes behind that keep lockfd open.
Survivors(i) ==
  IF execLock = i /\ child[i].st \in {"running", "hung"} THEN BOOLEAN ELSE {FALSE}

handler(i) ==
  /\ sup[i].armed
  /\ sup[i].pc # "done"
  /\ stderr' = [stderr EXCEPT ![i] = Append(@, "timeout")]
  /\ child' = [child EXCEPT ![i] = Killed(@)]
  /\ Emit(i, Buffered(i))
  /\ sup' = [sup EXCEPT ![i] = Exited(@, HandlerExitCode)]
  /\ \E left \in Survivors(i) :
       execLock' = IF left THEN Descendants ELSE Unlocked(execLock, i)
  /\ logLock' = Unlocked(logLock, i)
  /\ ofd' = Closed(ofd, i)
  /\ inode' = Collected(inode, tmpfile, ofd')
  /\ UNCHANGED <<makeflags, tmpfile, lockFiles, display, faults, fnVars>>

\* The last process that held the inherited lockfd ends.
DescendantsEnd ==
  /\ execLock = Descendants
  /\ execLock' = 0
  /\ UNCHANGED <<makeflags, sup, child, ofd, tmpfile, inode, lockFiles, logLock,
                 stdout, torn, stderr, display, faults, fnVars>>

(***************************************************************************)
(* main, lines 471-479 and 493-494: release alarm.lock, report a crash,    *)
(* and, for a whitelisted test, return the test's exit code.               *)
(***************************************************************************)
Classified(s) ==
  IF ~WIFEXITED(s.waitresult) THEN Exited(s, EXIT_ABNORMAL)
  ELSE IF s.notWhitelisted THEN [s EXCEPT !.pc = "probe"]
  ELSE Exited(s, WEXITSTATUS(s.waitresult))

CrashReport(i, s) ==
  IF ~WIFEXITED(s.waitresult) THEN <<Line(i, "abnormal", <<>>)>> ELSE <<>>

\* alarm.lock as it is when nothing releases it.
KeptExec(i) == execLock

ReleasedExec(i) == IF sup[i].lockfd # -1 THEN Unlocked(execLock, i) ELSE execLock

(***************************************************************************)
(* main, lines 433-443: wait for the child; without a child wait fails     *)
(* with ECHILD and waitresult keeps its 0.  Then, when the log file's      *)
(* offset is not 0, open log.lock, which may fail; when it is 0, go on to  *)
(* line 471.                                                               *)
(***************************************************************************)
HasLog(i) == sup[i].logfd # -1 /\ ofd[i].off # 0

Waited(i) ==
  [sup[i] EXCEPT !.ret = sup[i].child_pid,
                 !.waitresult = IF sup[i].child_pid = -1 THEN @ ELSE child[i].status]

Wait(i) ==
  /\ sup[i].pc = "wait"
  /\ sup[i].child_pid = -1 \/ child[i].st = "zombie"
  /\ child' = [child EXCEPT ![i] =
                 IF @.st = "zombie" THEN Gone("reaped", @.status) ELSE @]
  /\ IF HasLog(i)
     THEN /\ \E opened \in Outcomes :
               /\ sup' = [sup EXCEPT ![i] =
                            [Waited(i) EXCEPT
                               !.pc = IF opened THEN "logflock" ELSE "header",
                               !.loglockfd = IF opened THEN 5 ELSE -1]]
               /\ lockFiles' = IF opened THEN lockFiles \cup {"log.lock"}
                               ELSE lockFiles
               /\ faults' = faults + Cost(~opened)
          /\ UNCHANGED <<execLock, stdout, torn, ofd, inode>>
     ELSE /\ sup' = [sup EXCEPT ![i] = Classified(Waited(i))]
          /\ Emit(i, CrashReport(i, Waited(i)))
          /\ execLock' = ReleasedExec(i)
          /\ ofd' = IF sup'[i].pc = "done" THEN Closed(ofd, i) ELSE ofd
          /\ inode' = Collected(inode, tmpfile, ofd')
          /\ UNCHANGED <<lockFiles, faults>>
  /\ UNCHANGED <<makeflags, tmpfile, logLock, stderr, display, fnVars>>

\* line 445: flock(loglockfd, LOCK_EX)
FlockLog(i) ==
  /\ sup[i].pc = "logflock"
  /\ FlockGranted(logLock)
  /\ logLock' = i
  /\ sup' = [sup EXCEPT ![i] = [@ EXCEPT !.pc = "header"]]
  /\ UNCHANGED <<makeflags, child, ofd, tmpfile, inode, lockFiles, execLock,
                 stdout, torn, stderr, display, faults, fnVars>>

\* lines 453-457: write "alarm: runtest <testid> log:" and rewind the log.
WriteHeader(i) ==
  /\ sup[i].pc = "header"
  /\ Emit(i, <<Line(i, "header", <<>>)>>)
  /\ ofd' = [ofd EXCEPT ![i].off = 0]
  /\ sup' = [sup EXCEPT ![i] = [@ EXCEPT !.pc = "copy"]]
  /\ UNCHANGED <<makeflags, child, tmpfile, inode, lockFiles, execLock, logLock,
                 stderr, display, faults, fnVars>>

\* lines 458-462: read up to MYBUFLEN bytes and write them; when read gives
\* 0, close the log and remove the name "<testid>.tmplog".
CopyLog(i) ==
  /\ sup[i].pc = "copy"
  /\ LET content == inode[ofd[i].ino]
         left == Len(content) - ofd[i].off
         n == IF left < MYBUFLEN THEN left ELSE MYBUFLEN
     IN  IF n > 0
         THEN /\ Emit(i, <<Line(i, "log",
                               SubSeq(content, ofd[i].off + 1, ofd[i].off + n))>>)
              /\ ofd' = [ofd EXCEPT ![i].off = @ + n]
              /\ UNCHANGED <<sup, tmpfile, inode>>
         ELSE /\ sup' = [sup EXCEPT ![i] = [@ EXCEPT !.pc = "footer"]]
              /\ tmpfile' = [tmpfile EXCEPT ![sup[i].testid] = 0]
              /\ ofd' = Closed(ofd, i)
              /\ inode' = Collected(inode, tmpfile', ofd')
              /\ UNCHANGED <<stdout, torn>>
  /\ UNCHANGED <<makeflags, child, lockFiles, execLock, logLock,
                 stderr, display, faults, fnVars>>

\* lines 464-479: write "alarm: log end", release log.lock, and go on as
\* after a run without a log.
WriteFooter(i) ==
  /\ sup[i].pc = "footer"
  /\ Emit(i, <<Line(i, "footer", <<>>)>> \o CrashReport(i, sup[i]))
  /\ logLock' = IF sup[i].loglockfd # -1 THEN Unlocked(logLock, i) ELSE logLock
  /\ execLock' = ReleasedExec(i)
  /\ sup' = [sup EXCEPT ![i] = Classified(@)]
  /\ UNCHANGED <<makeflags, child, ofd, tmpfile, inode, lockFiles,
                 stderr, display, faults, fnVars>>

(***************************************************************************)
(* main, lines 481-494: compare the video mode with the one before the     *)
(* run, return the test's exit code.                                       *)
(***************************************************************************)
\* line 483: the video mode after the run.
Probe(i) ==
  /\ sup[i].pc = "probe"
  /\ \E probed \in Outcomes :
       /\ sup' = [sup EXCEPT ![i] = [@ EXCEPT !.pc = "compare",
                                              !.videoMode = getVideoMode(probed)]]
       /\ faults' = faults + Cost(~probed)
  /\ UNCHANGED <<makeflags, child, ofd, tmpfile, inode, lockFiles, execLock,
                 logLock, stdout, torn, stderr, display, fnVars>>

ModeChanged(s) == s.videoMode # s.origVideoMode

\* lines 484-494: printf the change (into the stdio buffer) and go on to
\* restore the mode, or return the test's exit code.
Compare(i) ==
  /\ sup[i].pc = "compare"
  /\ IF ModeChanged(sup[i])
     THEN /\ sup' = [sup EXCEPT ![i] = [@ EXCEPT !.pc = "reset"]]
          /\ UNCHANGED <<ofd, inode>>
     ELSE /\ sup' = [sup EXCEPT ![i] = Exited(@, WEXITSTATUS(sup[i].waitresult))]
          /\ ofd' = Closed(ofd, i)
          /\ inode' = Collected(inode, tmpfile, ofd')
  /\ UNCHANGED <<makeflags, child, tmpfile, lockFiles, execLock,
                 logLock, stdout, torn, stderr, display, faults, fnVars>>

\* lines 488-489: system("xrandr -s 0"), which may fail, and exit(1).
Reset(i) ==
  /\ sup[i].pc = "reset"
  /\ \E done \in Outcomes :
       /\ display' = IF done THEN ResetMode ELSE display
       /\ faults' = faults + Cost(~done)
  /\ Emit(i, Buffered(i))
  /\ sup' = [sup EXCEPT ![i] = Exited(@, EXIT_MODE_CHANGED)]
  /\ ofd' = Closed(ofd, i)
  /\ inode' = Collected(inode, tmpfile, ofd')
  /\ UNCHANGED <<makeflags, child, tmpfile, lockFiles, execLock,
                 logLock, stderr, fnVars>>

Step(i) ==
    \/ Start(i)
    \/ FlockExec(i)
    \/ Launch(i)
    \/ ChildExecFails(i)
    \/ ChildWrite(i)
    \/ ChildSetMode(i)
    \/ ChildExits(i)
    \/ ChildCrashes(i)
    \/ handler(i)
    \/ Wait(i)
    \/ FlockLog(i)
    \/ WriteHeader(i)
    \/ CopyLog(i)
    \/ WriteFooter(i)
    \/ Probe(i)
    \/ Compare(i)
    \/ Reset(i)

Next ==
  \/ \E i \in Procs : Step(i)
  \/ DescendantsEnd

Spec == Init /\ [][Next]_vars

(***************************************************************************)
(* The runs of the test msvcrtd:debug, next to a test that is not           *)
(* whitelisted.                                                            *)
(***************************************************************************)
LateInit ==
  /\ makeflags \in MakeflagsValues
  /\ sup = [i \in Procs |->
              InitSup(IF i = 1 THEN CL_listedLate ELSE CL_unlisted)]
  /\ child = [i \in Procs |-> InitChild]
  /\ ofd = [i \in Procs |-> [ino |-> 0, off |-> 0]]
  /\ tmpfile = [n \in LogNames |-> 0]
  /\ inode = [k \in Procs |-> <<>>]
  /\ lockFiles = {}
  /\ execLock = 0
  /\ logLock = 0
  /\ stdout = [i \in Procs |-> <<>>]
  /\ torn = [i \in Procs |-> FALSE]
  /\ faults = 0
  /\ stderr = [i \in Procs |-> <<>>]
  /\ display = ResetMode
  /\ FnIdle

LateSpec == LateInit /\ [][Next]_vars

(***************************************************************************)
(* The same system under the scheduling the kernel gives it: a supervisor  *)
(* that has started and can take a step takes it, a pending SIGALRM is     *)
(* delivered, and a test program that has not hung ends.  When a           *)
(* supervisor starts is for make to decide.  The runs are those of a       *)
(* whitelisted test next to a test that is not whitelisted.                *)
(***************************************************************************)
FairInit ==
  /\ Init
  /\ sup[1].argv = CL_listed
  /\ sup[NumProcs].argv = CL_unlisted

FairSpec ==
  /\ FairInit
  /\ [][Next]_vars
  /\ \A i \in Procs :
       /\ WF_vars(FlockExec(i) \/ Launch(i) \/ Wait(i) \/ FlockLog(i)
                  \/ WriteHeader(i) \/ CopyLog(i) \/ WriteFooter(i)
                  \/ Probe(i) \/ Compare(i) \/ Reset(i))
       /\ WF_vars(handler(i))
       /\ WF_vars(ChildExecFails(i) \/ ChildExits(i) \/ ChildCrashes(i))

(***************************************************************************)
(* A parallel run of tests that are not whitelisted, which all ask for     *)
(* alarm.lock, under the same scheduling.  Nothing makes the processes a   *)
(* killed test program has left behind end: they may hang for good.        *)
(***************************************************************************)
ContendedInit ==
  /\ Init
  /\ makeflags = MF_jobserver
  /\ \A i \in Procs : sup[i].argv = CL_unlisted

ContendedFairSpec ==
  /\ ContendedInit
  /\ [][Next]_vars
  /\ \A i \in Procs :
       /\ WF_vars(FlockExec(i) \/ Launch(i) \/ Wait(i) \/ FlockLog(i)
                  \/ WriteHeader(i) \/ CopyLog(i) \/ WriteFooter(i)
                  \/ Probe(i) \/ Compare(i) \/ Reset(i))
       /\ WF_vars(handler(i))
       /\ WF_vars(ChildExecFails(i) \/ ChildExits(i) \/ ChildCrashes(i))

(***************************************************************************)
(* A sequence of invocations: make starts a supervisor when the ones       *)
(* before it have exited.                                                  *)
(***************************************************************************)
InTurn(i) == sup[i].pc = "start" => \A j \in 1..(i - 1) : sup[j].pc = "done"

SequenceNext ==
  \/ \E i \in Procs : InTurn(i) /\ Step(i)
  \/ DescendantsEnd

SequenceSpec == Init /\ [][SequenceNext]_vars

(***************************************************************************)
(* getTestID on its own: one call on an invocation, the command and its    *)
(* arguments as main passes them (newargv), of at most MaxArgs tokens.     *)
(***************************************************************************)
TOK_wined3d_test == <<119,105,110,101,100,51,100,95,116,101,115,116,46,101,120,101>> \* "wined3d_test.exe"

Tokens == {TOK_runtest, STR_wine, TOK_ntdll_test, TOK_generated_c, TOK_wined3d_test}

Invocations == UNION {[1..n -> Tokens] : n \in 1..MaxArgs}

InitId ==
  /\ ProcIdle
  /\ idArgv \in Invocations
  /\ idRes = [ok |-> FALSE, buf |-> <<>>, done |-> FALSE]
  /\ wlKey = <<>>
  /\ wlRes = [found |-> FALSE, done |-> FALSE]

CallGetTestID ==
  /\ ~idRes.done
  /\ LET r == getTestID(Len(idArgv), idArgv)
     IN  idRes' = [ok |-> r.ok, buf |-> r.buf, done |-> TRUE]
  /\ UNCHANGED <<procVars, idArgv, wlKey, wlRes>>

NextId == CallGetTestID

SpecId == InitId /\ [][NextId]_vars

(***************************************************************************)
(* inWhitelist on its own: one call on a key.  The keys are the entries of *)
(* the array and strings next to them: an entry without its last byte,     *)
(* with a byte more, with its first letter in upper case; the empty        *)
(* string; and an identity that is not in the array.                       *)
(***************************************************************************)
STR_user32_msg == <<117,115,101,114,51,50,58,109,115,103>> \* "user32:msg"

UpperCase(c) == IF c >= 97 /\ c <= 122 THEN c - 32 ELSE c

LookupKeys ==
  {whitelist[k] : k \in 1..whitelist_len}
  \cup {SubSeq(whitelist[k], 1, Len(whitelist[k]) - 1) : k \in 1..whitelist_len}
  \cup {Append(whitelist[k], 120) : k \in 1..whitelist_len}
  \cup {<<UpperCase(Head(whitelist[k]))>> \o Tail(whitelist[k]) : k \in 1..whitelist_len}
  \cup {<<>>, STR_user32_msg}

InitWL ==
  /\ ProcIdle
  /\ idArgv = <<>>
  /\ idRes = [ok |-> FALSE, buf |-> <<>>, done |-> FALSE]
  /\ wlKey \in LookupKeys
  /\ wlRes = [found |-> FALSE, done |-> FALSE]

CallInWhitelist ==
  /\ ~wlRes.done
  /\ wlRes' = [found |-> inWhitelist(wlKey), done |-> TRUE]
  /\ UNCHANGED <<procVars, idArgv, idRes, wlKey>>

NextWL == CallInWhitelist

SpecWL == InitWL /\ [][NextWL]_vars

(***************************************************************************)
(* What the claims speak of.                                               *)
(***************************************************************************)
\* A line of the kind was written.
Said(lines, kind) == \E k \in DOMAIN lines : lines[k].k = kind

\* The string is one of the entries of the whitelist array.
IsEntry(key) == \E k \in 1..whitelist_len : whitelist[k] = key

\* MAKEFLAGS is unset or has no "jobserver" in it.
JobserverAbsent == makeflags.null \/ ~strstr(makeflags.str, STR_jobserver)

\* Supervisor i has got past its arguments and has not exited.
Running(i) == sup[i].pc \notin {"start", "done"}

\* Supervisor i has a launched child that it has not reaped.
HasChild(i) == sup[i].pc = "wait" /\ sup[i].child_pid # -1

\* The test of supervisor i is not whitelisted: its identity is no entry of
\* the whitelist, or it has no identity.
TestNotWhitelisted(i) == Running(i) /\ (~sup[i].idOk \/ ~IsEntry(sup[i].testid))

\* The first token of the invocation that holds the launcher marker, 0 if none.
MarkerToken(inv) ==
  LET ks == {k \in 1..Len(inv) : strstr(inv[k], STR_wine)}
  IN  IF ks = {} THEN 0 ELSE MinOf(ks)

\* The invocation has a launcher-marker token followed by a token with a '_'
\* and a token with a '.'.
HasIdentity(inv) ==
  LET k == MarkerToken(inv)
  IN  /\ k # 0
      /\ k + 2 <= Len(inv)
      /\ strrchr(inv[k + 1], CH_UNDERSCORE) # 0
      /\ strrchr(inv[k + 2], CH_DOT) # 0

\* "moduleName:fileName" of such an invocation.
Identity(inv) ==
  LET k == MarkerToken(inv)
  IN  SubSeq(inv[k + 1], 1, strrchr(inv[k + 1], CH_UNDERSCORE) - 1)
      \o <<CH_COLON>>
      \o SubSeq(inv[k + 2], 1, strrchr(inv[k + 2], CH_DOT) - 1)

(***************************************************************************)
(* C1: in a parallel run no two tests that are not whitelisted execute at  *)
(* the same time: at most one supervisor whose test is not whitelisted has *)
(* a launched child that it has not reaped.  Stated for the runs in which  *)
(* no call fails, where alarm.lock can always be opened.                   *)
(***************************************************************************)
C1_NotWhitelistedRunAlone ==
  (isParallelRun(makeflags) /\ faults = 0)
    => Cardinality({i \in Procs : TestNotWhitelisted(i) /\ HasChild(i)}) <= 1

(***************************************************************************)
(* C2: the log blocks the supervisors write to the shared standard output  *)
(* never interleave: nothing of another process lands between a block's    *)
(* header and its end line, and a block that was started has its end line  *)
(* when its supervisor has exited.  Stated for the runs in which no call   *)
(* fails.                                                                  *)
(***************************************************************************)
C2_BlocksContiguous ==
  faults = 0 =>
    \A i \in Procs :
      /\ ~torn[i]
      /\ (sup[i].pc = "done" /\ Said(stdout[i], "header"))
           => Said(stdout[i], "footer")

(***************************************************************************)
(* C3: when the child does not complete, the supervisor eventually writes  *)
(* the timeout diagnostic, kills the child and exits with code 1, and the  *)
(* child no longer runs.                                                   *)
(***************************************************************************)
C3_TimeoutKillsChild ==
  \A i \in Procs :
    (sup[i].pc = "wait" /\ child[i].st = "hung")
      ~> (/\ sup[i].pc = "done"
          /\ sup[i].exitCode = 1
          /\ \E k \in DOMAIN stderr[i] : stderr[i][k] = "timeout"
          /\ child[i].st = "killed")

\* A hung child was killed on timeout and its supervisor exited with code 1.
C3_Witness ==
  \E i \in Procs :
    /\ sup[i].pc = "done"
    /\ sup[i].exitCode = 1
    /\ stderr[i] = <<"timeout">>
    /\ child[i].st = "killed"

(***************************************************************************)
(* C4: once wait has returned a child that exited normally, and no video   *)
(* mode change is reported, the supervisor exits with the child's exit     *)
(* code and without the timeout diagnostic.  Stated for the runs in which  *)
(* no call fails.                                                          *)
(***************************************************************************)
C4_CompletedRunKeepsExitCode ==
  \A i \in Procs :
    (/\ faults = 0
     /\ sup[i].pc = "done"
     /\ child[i].st = "reaped"
     /\ WIFEXITED(child[i].status)
     /\ ~Said(stdout[i], "modechanged"))
      => (/\ sup[i].exitCode = WEXITSTATUS(child[i].status)
          /\ \A k \in DOMAIN stderr[i] : stderr[i][k] # "timeout")

(***************************************************************************)
(* C5: when the child was ended by a signal of its own, the supervisor     *)
(* does not probe the video mode after the run, and it exits with code 99  *)
(* after writing "alarm: Terminated abnormally".  The exit is stated for   *)
(* the runs in which no call fails.                                        *)
(***************************************************************************)
C5_CrashGives99 ==
  \A i \in Procs :
    /\ (sup[i].pc \in {"probe", "compare", "reset"}) => WIFEXITED(sup[i].waitresult)
    /\ (/\ faults = 0
        /\ sup[i].pc = "done"
        /\ child[i].st = "reaped"
        /\ ~WIFEXITED(child[i].status))
         => (sup[i].exitCode = 99 /\ Said(stdout[i], "abnormal"))

(***************************************************************************)
(* C6: a supervisor that has found the video mode after the run different  *)
(* from the one before it exits only with code 1, with the mismatch line   *)
(* written and the reset attempted, that is, at line 489 and not in the    *)
(* signal handler.  Stated for the runs in which no call fails.            *)
(***************************************************************************)
C6_MismatchReported ==
  [][\A i \in Procs :
       (/\ faults' = 0
        /\ sup[i].pc \in {"compare", "reset"}
        /\ ModeChanged(sup[i])
        /\ sup'[i].pc = "done")
         => (/\ sup[i].pc = "reset"
             /\ sup'[i].exitCode = 1
             /\ Said(stdout'[i], "modechanged")
             /\ stderr'[i] = stderr[i])]_vars

(***************************************************************************)
(* C7: when MAKEFLAGS is unset or has no "jobserver" in it, neither lock   *)
(* file is opened or created, no temporary log file is created, no child   *)
(* has its output redirected and no log header or end line is written.     *)
(***************************************************************************)
C7_SerialRunLeavesNoTrace ==
  JobserverAbsent =>
    /\ lockFiles = {}
    /\ execLock = 0
    /\ logLock = 0
    /\ \A n \in LogNames : tmpfile[n] = 0
    /\ \A i \in Procs :
         /\ sup[i].lockfd = -1
         /\ sup[i].logfd = -1
         /\ sup[i].loglockfd = -1
         /\ ofd[i].ino = 0
         /\ ~child[i].redirected
         /\ ~Said(stdout[i], "header")
         /\ ~Said(stdout[i], "footer")

\* A serial make (MAKEFLAGS set, without "jobserver") runs a test that is not
\* whitelisted; its child has written to the standard output and was reaped.
C7_Witness ==
  /\ makeflags = MF_serial
  /\ \E i \in Procs :
       /\ sup[i].pc = "probe"
       /\ sup[i].notWhitelisted
       /\ Said(stdout[i], "child")
       /\ child[i].st = "reaped"

(***************************************************************************)
(* C8: for every invocation that has a launcher-marker token at any        *)
(* position, the first token included, followed by "moduleName_suffix" and *)
(* "fileName.ext", getTestID succeeds and gives "moduleName:fileName".     *)
(***************************************************************************)
C8_IdentityFromAnyMarker ==
  (idRes.done /\ HasIdentity(idArgv))
    => (idRes.ok /\ idRes.buf = Identity(idArgv))

(***************************************************************************)
(* C9: a supervisor whose identity extraction failed treats its test as    *)
(* not whitelisted: notWhitelisted is set, so that it probes the video     *)
(* mode, and in a parallel run in which no call fails its child runs under *)
(* the execution lock.                                                     *)
(***************************************************************************)
C9_NoIdentityMeansNotWhitelisted ==
  \A i \in Procs :
    (Running(i) /\ ~sup[i].idOk)
      => (/\ sup[i].notWhitelisted
          /\ (isParallelRun(makeflags) /\ faults = 0 /\ HasChild(i)) => execLock = i)

(***************************************************************************)
(* C10: inWhitelist returns true exactly for the strings that are entries  *)
(* of the whitelist array.                                                 *)
(***************************************************************************)
C10_LookupIsMembership ==
  wlRes.done => (wlRes.found <=> IsEntry(wlKey))

\* The child of supervisor i failed to exec the command (lines 424-427).
ExecFailed(i) ==
  /\ child[i].st \in {"zombie", "reaped"}
  /\ child[i].status = StatusExited(EXIT_EXEC_FAILED)

TimedOut(i) == \E k \in DOMAIN stderr[i] : stderr[i][k] = "timeout"

(***************************************************************************)
(* C12: a supervisor that has exited on a path other than the timeout      *)
(* (with the child's exit code, with 99, with 1 after a mode change, or on *)
(* a usage error) holds neither alarm.lock nor log.lock.  On these paths   *)
(* the only steps that release a lock are the flock(LOCK_UN) calls of      *)
(* lines 468 and 473, so the locks were released before the exit; the      *)
(* timeout handler alone leaves the release to the end of the process.     *)
(***************************************************************************)
C12_CompletionReleasesLocks ==
  \A i \in Procs :
    (sup[i].pc = "done" /\ ~TimedOut(i)) => (execLock # i /\ logLock # i)

\* A run in which no call failed: a supervisor of a test that is not
\* whitelisted took both locks, wrote its block and exited with the child's code.
C12_Witness ==
  \E i \in Procs :
    /\ ~JobserverAbsent /\ faults = 0
    /\ sup[i].pc = "done" /\ ~TimedOut(i)
    /\ sup[i].argv = CL_unlisted
    /\ sup[i].exitCode \in ExitCodes
    /\ Said(stdout[i], "footer")
    /\ lockFiles = {"alarm.lock", "log.lock"}
    /\ \A j \in Procs \ {i} : sup[j].pc = "start"
    /\ execLock = 0 /\ logLock = 0

(***************************************************************************)
(* C13: in a parallel run in which no call fails, a supervisor that has    *)
(* exited without timing out has left no temporary log file behind: no     *)
(* name "<testid>.tmplog" refers to the file it created, whether or not    *)
(* its child wrote anything.  Stated for the tests that have an identity.  *)
(***************************************************************************)
C13_TmplogRemoved ==
  \A i \in Procs :
    (/\ ~JobserverAbsent /\ faults = 0
     /\ sup[i].pc = "done" /\ ~TimedOut(i)
     /\ HasIdentity(SubSeq(sup[i].argv, 3, Len(sup[i].argv)))) =>
      \A n \in LogNames : tmpfile[n] # i

\* The test of supervisor i has an identity that is an entry of the whitelist.
TestWhitelisted(i) == Running(i) /\ sup[i].idOk /\ IsEntry(sup[i].testid)

(***************************************************************************)
(* C14: a supervisor whose test identity is on the whitelist never opens   *)
(* or takes alarm.lock and never probes the video mode, in a serial and in *)
(* a parallel run; when it writes its log block in a parallel run in which *)
(* no call fails, it holds log.lock from the header to the footer.         *)
(***************************************************************************)
C14_WhitelistedSkipsExecLock ==
  \A i \in Procs :
    TestWhitelisted(i) =>
      /\ sup[i].lockfd = -1
      /\ execLock # i
      /\ sup[i].pc \notin {"flock", "probe", "compare", "reset"}
      /\ sup[i].origVideoMode = 0
      /\ (BlockOpen(i) /\ faults = 0) => logLock = i

\* Supervisor i is blocked in flock: another holder has the lock it asks for.
BlockedOnExecLock(i) == sup[i].pc = "flock" /\ execLock \notin {0, i}

BlockedOnLogLock(i) == sup[i].pc = "logflock" /\ logLock \notin {0, i}

(***************************************************************************)
(* C15: the deadline never ends a supervisor while it is blocked in        *)
(* flock on alarm.lock (line 406) or in flock on log.lock (line 445): in   *)
(* the runs in which no call fails, no step takes a supervisor from either *)
(* of these waits to its exit.                                             *)
(***************************************************************************)
C15_LockWaitsNotPreempted ==
  [][\A i \in Procs :
       (faults' = 0 /\ (BlockedOnExecLock(i) \/ BlockedOnLogLock(i)))
         => sup'[i].pc # "done"]_vars

(***************************************************************************)
(* The part of C15 that is about alarm.lock: while a supervisor is in      *)
(* flock on alarm.lock no alarm is armed, and no step ends it.             *)
(***************************************************************************)
ExecLockWaitNotPreempted ==
  [][\A i \in Procs :
       sup[i].pc = "flock" => (~sup[i].armed /\ sup'[i].pc # "done")]_vars

\* Supervisor j has a live child running a test that is not whitelisted.
RunsNotWhitelisted(j) ==
  /\ HasChild(j) /\ child[j].st \in {"running", "hung"}
  /\ sup[j].notWhitelisted /\ TestNotWhitelisted(j)

\* The step is one in which supervisor i probes the video mode: before the
\* run (line 397) or after it (line 483).
Probes(i) ==
  \/ sup[i].pc = "start" /\ sup'[i].pc # "start" /\ sup'[i].notWhitelisted
  \/ sup[i].pc = "probe" /\ sup'[i].pc = "compare"

(***************************************************************************)
(* C16: in a parallel run in which no call fails, a supervisor of a test   *)
(* that is not whitelisted takes both of its probes of the video mode      *)
(* while no other child of a test that is not whitelisted is running, so   *)
(* that only its own child can account for a difference between them.      *)
(***************************************************************************)
C16_ProbesSeeOwnChildOnly ==
  [][\A i \in Procs :
       (~JobserverAbsent /\ faults' = 0 /\ Probes(i)) =>
         \A j \in Procs \ {i} : ~RunsNotWhitelisted(j)]_vars

(***************************************************************************)
(* C17: in a parallel run under fair scheduling every supervisor that has  *)
(* got past its arguments exits in the end, even when test programs never  *)
(* end on their own; and no supervisor asks for alarm.lock while it holds  *)
(* log.lock.                                                               *)
(***************************************************************************)
C17_EverySupervisorExits ==
  /\ [](\A i \in Procs : sup[i].pc = "flock" => logLock # i)
  /\ \A i \in Procs : Running(i) ~> (sup[i].pc = "done")

\* The order of the locks, the part of C17 that is a safety property.
LockOrder == \A i \in Procs : sup[i].pc = "flock" => logLock # i

\* The bytes supervisor i has copied from its temporary log to the standard
\* output so far, in order.
RECURSIVE Replayed(_)
Replayed(lines) ==
  IF lines = <<>> THEN <<>>
  ELSE (IF Head(lines).k = "log" THEN Head(lines).b ELSE <<>>) \o Replayed(Tail(lines))

(***************************************************************************)
(* C18: the bytes a supervisor writes between its log header and its log   *)
(* footer are bytes that the child of this invocation wrote, and a block   *)
(* that is complete holds at least one of them: no byte of another run of  *)
(* the same test comes out in the block.  Stated for the tests that have   *)
(* an identity and the runs in which no call fails.                        *)
(***************************************************************************)
C18_BlockHoldsOwnBytesOnly ==
  \A i \in Procs :
    (faults = 0 /\ HasIdentity(SubSeq(sup[i].argv, 3, Len(sup[i].argv)))) =>
      LET bytes == Replayed(stdout[i])
      IN  /\ \A k \in DOMAIN bytes : bytes[k] = i
          /\ Said(stdout[i], "footer") => bytes # <<>>

\* The step is one in which the timeout handler of supervisor i runs.
HandlerRuns(i) == stderr'[i] = Append(stderr[i], "timeout")

(***************************************************************************)
(* C19: when the timeout handler sends SIGKILL, child_pid names a launched *)
(* child of the supervisor that has not been reaped: the handler never     *)
(* signals after wait has returned, nor when fork has failed.              *)
(***************************************************************************)
C19_KillHitsUnreapedChild ==
  [][\A i \in Procs :
       HandlerRuns(i) => KillTarget(i) \in {"live child", "zombie child"}]_vars

=============================================================================
